---- MODULE Spec2Model ----
(***************************************************************************)
(* A model of the LINE -> Google Sheets message pipeline:                  *)
(*   - MessageProcessor (services/processor.ts): the field extractor,      *)
(*   - GeminiAnalysisService (services/gemini.ts): analyzeMessage and      *)
(*     batchAnalyze,                                                       *)
(*   - CoreProcessor (services/core_processor.ts): processLINEMessage,     *)
(*     healthCheck, and the calls they make on the message store and on    *)
(*     the sheet,                                                          *)
(*   - database/init.ts: the messages table, initializeDatabase, runQuery, *)
(*   - app.ts: startServer.                                                *)
(* A text is a sequence of characters (one-character strings, with the     *)
(* names below for the characters that have no ASCII spelling).  Every     *)
(* await of the code is one action: the awaited request takes effect and    *)
(* the caller resumes up to its next await.                                 *)
(***************************************************************************)
EXTENDS Integers, Sequences, FiniteSets, TLC

\* ------------------------------------------------------------------ bounds
\* concurrent invocations of processLINEMessage
NumProcs == 2
\* rows already in column A of the sheet when the first invocation starts
MaxInitRows == 1
\* items handed to batchAnalyze
MaxBatch == 3
\* largest concurrency limit handed to batchAnalyze
MaxConc == 3
\* chunks the chunking loop of batchAnalyze may build before the model stops it
MaxChunks == 4
\* concurrent calls of healthCheck
NumChecks == 2
\* characters of the text handed to detectSeparator
MaxSepLen == 3

\* ------------------------------------------------------- nullable values
\* A nullable column or optional field: <<>> is NULL / undefined, <<v>> a value.
Null == <<>>
Some(v) == <<v>>

\* -------------------------------------------------------------- characters
FWColon == "FWCOLON"
HalfColon == ":"
EqualsSign == "="
LF == "LF"
Space == " "
FWSpace == "FWSPACE"

Whitespace == {Space, FWSpace, LF}
Digits == {"0", "1", "2", "3", "4", "5", "6", "7", "8", "9"}

\* String.prototype.toLowerCase on one character
toLowerCase(c) ==
  CASE c = "A" -> "a"
    [] c = "N" -> "n"
    [] OTHER -> c

\* ------------------------------------------------------------ text helpers
RECURSIVE Filter(_, _)
\* the characters of s that are not in the set drop, in order
Filter(s, drop) ==
  IF s = <<>> THEN <<>>
  ELSE IF Head(s) \in drop THEN Filter(Tail(s), drop)
  ELSE <<Head(s)>> \o Filter(Tail(s), drop)

RECURSIVE TrimStart(_)
TrimStart(s) ==
  IF s # <<>> /\ Head(s) \in Whitespace THEN TrimStart(Tail(s)) ELSE s

RECURSIVE TrimEnd(_)
TrimEnd(s) ==
  IF s # <<>> /\ s[Len(s)] \in Whitespace THEN TrimEnd(SubSeq(s, 1, Len(s) - 1)) ELSE s

\* String.prototype.trim
Trim(s) == TrimEnd(TrimStart(s))

RECURSIVE Split(_, _)
\* String.prototype.split on a one-character separator: the pieces between
\* the occurrences of sep (always at least one piece)
Split(s, sep) ==
  IF \A i \in DOMAIN s : s[i] # sep THEN <<s>>
  ELSE LET i == CHOOSE j \in DOMAIN s : s[j] = sep /\ \A k \in 1..(j - 1) : s[k] # sep
       IN <<SubSeq(s, 1, i - 1)>> \o Split(SubSeq(s, i + 1, Len(s)), sep)

RECURSIVE Join(_, _)
\* Array.prototype.join
Join(parts, sep) ==
  IF parts = <<>> THEN <<>>
  ELSE IF Len(parts) = 1 THEN parts[1]
  ELSE parts[1] \o <<sep>> \o Join(Tail(parts), sep)

RECURSIVE CollapseSpaces(_)
\* replace(/\s+/g, ' ')
CollapseSpaces(s) ==
  IF s = <<>> THEN <<>>
  ELSE IF Head(s) \in Whitespace
       THEN <<Space>> \o CollapseSpaces(TrimStart(s))
       ELSE <<Head(s)>> \o CollapseSpaces(Tail(s))

RECURSIVE DigitsValue(_)
\* parseInt(value, 10) of a sequence of digits
DigitsValue(s) ==
  IF s = <<>> THEN 0
  ELSE 10 * DigitsValue(SubSeq(s, 1, Len(s) - 1))
       + (CHOOSE d \in 0..9 : ToString(d) = s[Len(s)])

\* ------------------------------------------------- MessageProcessor
Count(text, c) == Cardinality({i \in DOMAIN text : text[i] = c})

\* a separator with the fewest occurrences
detectSeparatorLeast(text) ==
  LET order == <<FWColon, HalfColon, EqualsSign>>
  IN order[CHOOSE i \in 1..3 :
             \A j \in 1..3 : Count(text, order[i]) <= Count(text, order[j])]

\* detectSeparator: the entries are sorted by count, descending, and the sort
\* is stable, so among equal counts the earlier of FWColon, HalfColon,
\* EqualsSign comes first
detectSeparator(text) ==
  LET order == <<FWColon, HalfColon, EqualsSign>>
      first == CHOOSE i \in 1..3 :
                 /\ \A j \in 1..3 : Count(text, order[j]) <= Count(text, order[i])
                 /\ \A j \in 1..(i - 1) : Count(text, order[j]) < Count(text, order[i])
  IN IF Count(text, order[first]) > 0 THEN order[first] ELSE FWColon

\* parseValue: an integer, a float, or the string itself
parseValue(value) ==
  IF value # <<>> /\ \A i \in DOMAIN value : value[i] \in Digits
  THEN [t |-> "int", int |-> DigitsValue(value), str |-> <<>>]
  ELSE IF /\ Len(Split(value, ".")) = 2
          /\ \A k \in 1..2 : /\ Split(value, ".")[k] # <<>>
                             /\ \A i \in DOMAIN Split(value, ".")[k] :
                                  Split(value, ".")[k][i] \in Digits
  THEN [t |-> "float", int |-> 0, str |-> value]
  ELSE [t |-> "str", int |-> 0, str |-> value]

\* Object.assign(a, b)
ObjectAssign(a, b) ==
  [k \in DOMAIN a \cup DOMAIN b |-> IF k \in DOMAIN b THEN b[k] ELSE a[k]]

\* the object with no keys
EmptyObject == [k \in {} |-> Null]

\* extractFromLine
extractFromLine(line, separator) ==
  LET parts == Split(line, separator)
      key == [i \in DOMAIN Filter(Trim(parts[1]), Whitespace) |->
                toLowerCase(Filter(Trim(parts[1]), Whitespace)[i])]
      value == Trim(Join(Tail(parts), separator))
  IN IF Len(parts) >= 2 /\ key # <<>> /\ value # <<>>
     THEN [k \in {key} |-> parseValue(value)]
     ELSE EmptyObject

\* cleanExtractedData
cleanExtractedData(data) ==
  LET keep == {k \in DOMAIN data : ~(data[k].t = "str" /\ data[k].str = <<>>)}
  IN [k \in keep |->
        IF data[k].t = "str"
        THEN [data[k] EXCEPT !.str = CollapseSpaces(Trim(data[k].str))]
        ELSE data[k]]

RECURSIVE AssignLines(_, _, _)
\* the loop over the lines of extractBasicData
AssignLines(lines, separator, acc) ==
  IF lines = <<>> THEN acc
  ELSE AssignLines(Tail(lines), separator,
                   ObjectAssign(acc, extractFromLine(Head(lines), separator)))

RECURSIVE NonEmptyTrimmed(_)
\* .map(line => line.trim()).filter(line => line.length > 0)
NonEmptyTrimmed(lines) ==
  IF lines = <<>> THEN <<>>
  ELSE IF Trim(Head(lines)) = <<>> THEN NonEmptyTrimmed(Tail(lines))
  ELSE <<Trim(Head(lines))>> \o NonEmptyTrimmed(Tail(lines))

\* extractBasicData
extractBasicData(messageText) ==
  cleanExtractedData(
    AssignLines(NonEmptyTrimmed(Split(messageText, LF)),
                detectSeparator(messageText), EmptyObject))

\* ------------------------------------------------- GeminiAnalysisService
\* A number of the analysis result: a JavaScript number is an integer here, or NaN.
Num(n) == [nan |-> FALSE, v |-> n]
NaN == [nan |-> TRUE, v |-> 0]

\* what the response of the remote model may carry as confidence_score
ScoreInputs ==
  {[t |-> "absent", v |-> 0], [t |-> "str", v |-> 0], [t |-> "numstr", v |-> 85]}
  \cup {[t |-> "num", v |-> n] : n \in {-5, 0, 30, 85, 100, 150}}

\* x || 70 for the confidence_score of the parsed object, then the number
\* Math.max and Math.min make of it
ScoreOrDefault(score) ==
  CASE score.t = "absent" -> Num(70)
    [] score.t = "num" -> IF score.v = 0 THEN Num(70) ELSE Num(score.v)
    [] score.t = "numstr" -> Num(score.v)
    [] OTHER -> NaN

MathMax(a, x) == IF x.nan THEN NaN ELSE IF x.v > a THEN x ELSE Num(a)
MathMin(a, x) == IF x.nan THEN NaN ELSE IF x.v < a THEN x ELSE Num(a)

\* x || d for an optional string field: undefined and '' are falsy
OrDefault(x, d) == IF x = Null \/ x = Some("") THEN d ELSE x[1]

\* The text of a remote response: what surrounds the body (nothing, a
\* markdown code fence, or prose without braces) and the body: a JSON object
\* with the fields obj, the JSON literal null, another JSON scalar, or text
\* that is no JSON.
Prefixes == {"none", "fence", "prose"}
Bodies == {"object", "null", "scalar", "malformed"}

\* the text JSON.parse is given: the fence is stripped, and prose is dropped
\* only around a {...} match
CleanedBody(analysisText) ==
  IF analysisText.prefix = "prose" /\ analysisText.body # "object"
  THEN "malformed"
  ELSE analysisText.body

\* the placeholder summary, as a text
DefaultSummary == <<"r", "e", "c", "e", "i", "v", "e", "d">>

\* the parsed value when the body is a JSON scalar: no property is defined
NoObject ==
  [sentiment |-> Null, urgency |-> Null, importance |-> Null, category |-> Null,
   keywords |-> Null, summary |-> Null, action_required |-> Null,
   confidence_score |-> [t |-> "absent", v |-> 0],
   business_intent |-> Null, suggested_response |-> Null]

\* a parse failure answered like a failed call
ParseFailureResultLow ==
  [sentiment |-> "neutral", urgency |-> "medium", importance |-> "medium",
   category |-> "general", keywords |-> <<>>, summary |-> Some(<<"r", "e", "c", "e", "i", "v", "e", "d">>),
   action_required |-> "none", confidence_score |-> Num(30),
   business_intent |-> Some("analysis failed"),
   suggested_response |-> Some("check manually")]

\* the catch branch of parseAnalysisResult
ParseFailureResult ==
  [sentiment |-> "neutral", urgency |-> "medium", importance |-> "medium",
   category |-> "general", keywords |-> <<>>, summary |-> Some(DefaultSummary),
   action_required |-> "none", confidence_score |-> Num(50),
   business_intent |-> Some("analysis failed"),
   suggested_response |-> Some("check manually")]

\* parseAnalysisResult
parseAnalysisResult(analysisText) ==
  LET body == CleanedBody(analysisText)
      parsed == IF body = "object" THEN analysisText.obj ELSE NoObject
  IN IF body \in {"malformed", "null"}
     THEN ParseFailureResult
     ELSE [sentiment |-> OrDefault(parsed.sentiment, "neutral"),
           urgency |-> OrDefault(parsed.urgency, "medium"),
           importance |-> OrDefault(parsed.importance, "medium"),
           category |-> OrDefault(parsed.category, "general"),
           keywords |-> IF parsed.keywords = Null THEN <<>> ELSE parsed.keywords[1],
           summary |-> Some(OrDefault(parsed.summary, DefaultSummary)),
           action_required |-> OrDefault(parsed.action_required, "none"),
           confidence_score |->
             MathMin(100, MathMax(0, ScoreOrDefault(parsed.confidence_score))),
           business_intent |-> parsed.business_intent,
           suggested_response |-> parsed.suggested_response]

\* getFallbackAnalysis
getFallbackAnalysis(messageText) ==
  [sentiment |-> "neutral", urgency |-> "medium", importance |-> "medium",
   category |-> "general", keywords |-> <<>>,
   summary |-> Some(IF Len(messageText) > 50
                    THEN SubSeq(messageText, 1, 47) \o <<".", ".", ".">>
                    ELSE messageText),
   action_required |-> "none", confidence_score |-> Num(30),
   business_intent |-> Some("manual check needed"),
   suggested_response |-> Some("contact the administrator"),
   processing_time |-> "elapsed", model_used |-> "fallback"]

\* What the remote call of analyzeMessage does: it rejects, or it answers
\* with a text.
CallFailed == [kind |-> "error"]
Answered(analysisText) == [kind |-> "text", text |-> analysisText]

\* ...analysis, processing_time, model_used: 'gemini-pro'
WithModel(analysis) ==
  [k \in DOMAIN analysis \cup {"processing_time", "model_used"} |->
     CASE k = "processing_time" -> "elapsed"
       [] k = "model_used" -> "gemini-pro"
       [] OTHER -> analysis[k]]

\* how a promise settles
Fulfilled(value) == [state |-> "fulfilled", value |-> Some(value)]
Rejected == [state |-> "rejected", value |-> Null]

\* an analyzeMessage without its catch block
analyzeMessageUncaught(messageText, response) ==
  IF response.kind = "error"
  THEN Rejected
  ELSE Fulfilled(WithModel(parseAnalysisResult(response.text)))

\* analyzeMessage: how its promise settles. An error of the remote call is
\* caught and answered with the fallback analysis; an answer is parsed.
analyzeMessage(messageText, response) ==
  IF response.kind = "error"
  THEN Fulfilled(getFallbackAnalysis(messageText))
  ELSE Fulfilled(WithModel(parseAnalysisResult(response.text)))


\* ------------------------------------------------------------------ state
VARIABLES
  \* CoreProcessor and its collaborators
  config,           \* this.config: the SimpleConfig fields the pipeline reads
  sheetsClient,     \* whether this.sheetsClient is non-null
  columns,          \* the columns of table messages in data/app.db
  messages,         \* table messages: the rows, by id
  lastInsertRowid,  \* the connection's last_insert_rowid()
  sheet,            \* column range A:J of the target sheet, by row number
  pc,               \* where each invocation of processLINEMessage stands
  frame,            \* its parameters and locals: messageText, messageId,
                    \* extractedData, analysis, and of its sendToSheets the
                    \* length of response.data.values and nextRow
  result,           \* the ProcessingResult it returned
  ownId,            \* history: the id of the row its INSERT created
  delivered,        \* history: the sheet row its values.update wrote
  \* GeminiAnalysisService.analyzeMessage, one call
  aText, aResponse, aResult,
  \* GeminiAnalysisService.batchAnalyze, one call
  bMessages,        \* the messages argument
  bConcurrency,     \* the concurrency argument
  bPc,              \* where the call stands
  bI,               \* the i of the chunking loop
  chunks,           \* const chunks: each chunk a sequence of positions of bMessages
  bChunk,           \* the index in chunks of the chunk of the for-of loop
  inFlight,         \* positions whose analyzeMessage awaits the remote call
  settled,          \* the value each promise of the chunk resolved to
  results,          \* const results
  bResponses,       \* history: what the remote call answered, by position
  bStarted,         \* history: the positions whose analysis has started
  bOrder,           \* history: the positions in the order their analyses finished
  bSpin,            \* flips at every turn of a chunking loop past MaxChunks chunks
  \* CoreProcessor.healthCheck, by call
  hPc,              \* where the call stands
  checks,           \* const checks
  hResult,          \* what the call returned
  hFetch,           \* history: how its spreadsheets.get ended ("none": not made)
  \* MessageProcessor.detectSeparator, one call
  sepText, sepResult,
  \* app.ts and database/init.ts: the start of the server
  dbOpen,           \* the connection db: "opening", "open" or "error"
  created,          \* by statement of createTables: "none", "queued", "done", "error"
  initPromise,      \* the promise of initializeDatabase
  serverPc,         \* where startServer stands
  served,           \* history: the requests answered, with the tables then created
  \* CoreProcessor.updateConfig, one call
  env,              \* process.env: the variables initializeConfig reads
  uPc,              \* where the call stands
  newConfig         \* the newConfig argument

coreVars == <<config, sheetsClient, columns, messages, lastInsertRowid, sheet, pc,
              frame, result, ownId, delivered>>
analyzeVars == <<aText, aResponse, aResult>>
batchVars == <<bMessages, bConcurrency, bPc, bI, chunks, bChunk, inFlight, settled,
               results, bResponses, bStarted, bOrder, bSpin>>
healthVars == <<hPc, checks, hResult, hFetch>>
separatorVars == <<sepText, sepResult>>
startupVars == <<dbOpen, created, initPromise, serverPc, served>>
configVars == <<env, uPc, newConfig>>
otherVars == <<healthVars, separatorVars, startupVars, configVars>>
vars == <<coreVars, analyzeVars, batchVars, otherVars>>

Procs == 1..NumProcs

\* ------------------------------------------------------ database/init.ts
\* the columns of CREATE TABLE IF NOT EXISTS messages
CreateTablesColumns ==
  {"id", "content", "sender_id", "status", "ai_analysis", "created_at", "processed_at"}

\* the columns the UPDATE of updateMessageStatus names
UpdateColumns ==
  {"status", "extracted_data", "ai_analysis", "sheets_row_number", "processed_at", "id"}

\* the columns the INSERT of saveMessage names
InsertColumns == {"content", "sender_id", "status", "created_at"}

\* runQuery: db.all calls back with rows unless the statement names a column
\* the table lacks or the store fails (accepted is the store's own answer)
runQuery(stmtColumns, accepted) == accepted /\ stmtColumns \subseteq columns

\* the err db.all calls back with: the store's own failure, or the column
\* the table lacks
queryError(accepted) == IF accepted THEN "no such column" ELSE "db"

\* ------------------------------------------------------- CoreProcessor
\* the frame of an invocation that has not started or has returned
NoFrame ==
  [messageText |-> <<>>, messageId |-> 0, extractedData |-> EmptyObject,
   analysis |-> Null, valuesLength |-> 0, nextRow |-> 0]

\* the catch block of processLINEMessage: the result it returns
FailureResult(error) ==
  [success |-> FALSE, messageId |-> 0, rowNumber |-> Null, error |-> Some(error),
   processingTime |-> Some("elapsed")]

\* the result processLINEMessage returns at the end of its try block
SuccessResult(id, row) ==
  [success |-> TRUE, messageId |-> id, rowNumber |-> Some(row), error |-> Null,
   processingTime |-> Some("elapsed")]

\* processLINEMessage returns res
Return(p, res) ==
  /\ pc' = [pc EXCEPT ![p] = "returned"]
  /\ result' = [result EXCEPT ![p] = Some(res)]
  /\ frame' = [frame EXCEPT ![p] = NoFrame]

\* the promise of processLINEMessage rejects
Reject(p) ==
  /\ pc' = [pc EXCEPT ![p] = "threw"]
  /\ frame' = [frame EXCEPT ![p] = NoFrame]
  /\ UNCHANGED result

\* a catch block that throws the error again
CatchRethrows(p, error) == Reject(p)

\* a catch block that starts the pipeline again
CatchRetries(p, error) ==
  /\ pc' = [pc EXCEPT ![p] = "insert"]
  /\ UNCHANGED <<frame, result>>

\* an error thrown in the try block of processLINEMessage reaches its catch
\* block, which returns the failure result
Catch(p, error) == Return(p, FailureResult(error))

\* the invocation goes on to its next await with the locals f
Continue(p, at, f) ==
  /\ pc' = [pc EXCEPT ![p] = at]
  /\ frame' = [frame EXCEPT ![p] = f]
  /\ UNCHANGED result

\* the row INSERT INTO messages ... VALUES (?, ?, 'processing', datetime('now')) adds
InsertedRow(content, senderId) ==
  [content |-> content, sender_id |-> senderId, status |-> "processing",
   extracted_data |-> Null, ai_analysis |-> Null, sheets_row_number |-> Null,
   created_at |-> Some("now"), processed_at |-> Null, processedAtWrites |-> 0]

\* a SET clause that leaves sheets_row_number out
UpdatedRowWithoutSheetRow(row, status, data) ==
  [row EXCEPT !.status = status,
              !.extracted_data = Some(data.extractedData),
              !.ai_analysis = data.analysis,
              !.processed_at = Some("now"),
              !.processedAtWrites = @ + 1]

\* the SET clause of updateMessageStatus on one row (processedAtWrites is no
\* column: it counts the writes of processed_at)
UpdatedRow(row, status, data) ==
  [row EXCEPT !.status = status,
              !.extracted_data = Some(data.extractedData),
              !.ai_analysis = data.analysis,
              !.sheets_row_number = Some(data.sheetRow),
              !.processed_at = Some("now"),
              !.processedAtWrites = @ + 1]

\* an UPDATE whose parameters are bound one place off: status gets no value
\* and falls back to the column default
updateMessageStatusMisbound(table, id, status, data) ==
  [i \in DOMAIN table |->
     IF i = id THEN UpdatedRow(table[i], "pending", data) ELSE table[i]]

\* UPDATE messages SET ... WHERE id = ?
updateMessageStatus(table, id, status, data) ==
  [i \in DOMAIN table |->
     IF i = id THEN UpdatedRow(table[i], status, data) ELSE table[i]]

\* x || '' for a field of extractedData: a missing key, and the number 0, are falsy
FieldOrEmpty(extracted, key) ==
  IF key \notin DOMAIN extracted THEN <<>>
  ELSE IF extracted[key].t = "int"
       THEN (IF extracted[key].int = 0 THEN <<>>
             ELSE <<ToString(extracted[key].int)>>)
       ELSE extracted[key].str

\* prepareSheetData: columns A to J (writer is not a cell: it records which
\* invocation wrote the row)
prepareSheetData(extracted, an, originalText, writer) ==
  [timestamp |-> "now",
   originalText |-> originalText,
   name |-> FieldOrEmpty(extracted, <<"n", "a", "m", "e">>),
   email |-> FieldOrEmpty(extracted, <<"e", "m", "a", "i", "l">>),
   phone |-> FieldOrEmpty(extracted, <<"p", "h", "o", "n", "e">>),
   company |-> FieldOrEmpty(extracted, <<"c", "o", "m", "p", "a", "n", "y">>),
   sentiment |-> IF an = Null THEN "" ELSE an[1].sentiment,
   urgency |-> IF an = Null THEN "" ELSE an[1].urgency,
   category |-> IF an = Null THEN "" ELSE an[1].category,
   json |-> extracted,
   writer |-> writer]

\* a next row without the || 1
NextRowPlain(length) == length + 1

\* a next row that is the last row of the extent
NextRowLast(length) == IF length = 0 THEN 2 ELSE length

\* const nextRow = (response.data.values?.length || 1) + 1
NextRow(length) == (IF length = 0 THEN 1 ELSE length) + 1

\* a write of the row that looks for a row with the same text first
WriteRowDeduplicated(sh, row, rowData) ==
  IF \E i \in DOMAIN sh : /\ sh[i] # Null
                          /\ sh[i][1].writer # 0
                          /\ sh[i][1].originalText = rowData.originalText
  THEN [i \in DOMAIN sh |->
          IF /\ sh[i] # Null
             /\ sh[i][1].writer # 0
             /\ sh[i][1].originalText = rowData.originalText
          THEN Some(rowData) ELSE sh[i]]
  ELSE [i \in 1..(IF row > Len(sh) THEN row ELSE Len(sh)) |->
          IF i = row THEN Some(rowData)
          ELSE IF i <= Len(sh) THEN sh[i] ELSE Null]

\* values.update of range A{row}:J{row}: the sheet with rowData in that row
\* (the rows between the old extent and row stay empty)
WriteRow(sh, row, rowData) ==
  [i \in 1..(IF row > Len(sh) THEN row ELSE Len(sh)) |->
     IF i = row THEN Some(rowData)
     ELSE IF i <= Len(sh) THEN sh[i] ELSE Null]

\* the text and sender id handed to processLINEMessage (the pipeline never
\* branches on them)
PipelineTexts == {<<"k", FWColon, "v">>}
Senders == {"U1"}

\* what the remote model answers inside the pipeline
AnObject ==
  [sentiment |-> Some("positive"), urgency |-> Some("high"), importance |-> Null,
   category |-> Some("inquiry"), keywords |-> Some(<<"kw">>), summary |-> Null,
   action_required |-> Null, confidence_score |-> [t |-> "num", v |-> 85],
   business_intent |-> Null, suggested_response |-> Null]
PipelineResponses ==
  {CallFailed,
   Answered([prefix |-> "fence", body |-> "object", obj |-> AnObject])}

\* sendToSheets up to its first await: the configuration check
EnterSendToSheets(p, f) ==
  IF sheetsClient
  THEN Continue(p, "sheetGet", f)
  ELSE Catch(p, "sheets config")

\* processLINEMessage is called: the configuration check, then saveMessage
\* issues its INSERT
Start(p) ==
  /\ pc[p] = "idle"
  /\ \E t \in PipelineTexts :
       IF sheetsClient
       THEN Continue(p, "insert", [frame[p] EXCEPT !.messageText = t])
       ELSE Catch(p, "config")
  /\ UNCHANGED <<config, sheetsClient, columns, messages, lastInsertRowid, sheet,
                 ownId, delivered>>
  /\ UNCHANGED <<analyzeVars, batchVars, otherVars>>

\* saveMessage: the INSERT is answered. The invocations are numbered in the
\* order in which their INSERTs are answered.
Insert(p) ==
  /\ pc[p] = "insert"
  /\ \A q \in 1..(p - 1) : pc[q] \notin {"idle", "insert"}
  /\ \E accepted \in BOOLEAN, senderId \in Senders :
       IF runQuery(InsertColumns, accepted)
       THEN /\ messages' = Append(messages,
                                  InsertedRow(frame[p].messageText, senderId))
            /\ lastInsertRowid' = Len(messages) + 1
            /\ ownId' = [ownId EXCEPT ![p] = Len(messages) + 1]
            /\ Continue(p, "selectId", frame[p])
       ELSE /\ Catch(p, queryError(accepted))
            /\ UNCHANGED <<messages, lastInsertRowid, ownId>>
  /\ UNCHANGED <<config, sheetsClient, columns, sheet, delivered>>
  /\ UNCHANGED <<analyzeVars, batchVars, otherVars>>

\* saveMessage: SELECT last_insert_rowid() is answered; then extractBasicData,
\* and the enrichment call or sendToSheets starts
SelectId(p) ==
  /\ pc[p] = "selectId"
  /\ \E accepted \in BOOLEAN :
       IF runQuery({}, accepted)
       THEN LET f == [frame[p] EXCEPT
                        !.messageId = lastInsertRowid,
                        !.extractedData = extractBasicData(frame[p].messageText)]
            IN IF config.enableAI
               THEN Continue(p, "ai", f)
               ELSE EnterSendToSheets(p, f)
       ELSE Catch(p, queryError(accepted))
  /\ UNCHANGED <<config, sheetsClient, columns, messages, lastInsertRowid, sheet,
                 ownId, delivered>>
  /\ UNCHANGED <<analyzeVars, batchVars, otherVars>>

\* geminiService.analyzeMessage settles (a rejection is caught and leaves
\* analysis null); then sendToSheets starts
Enrich(p) ==
  /\ pc[p] = "ai"
  /\ \E response \in PipelineResponses :
       LET promise == analyzeMessage(frame[p].messageText, response)
       IN EnterSendToSheets(p,
            [frame[p] EXCEPT
               !.analysis = IF promise.state = "fulfilled"
                            THEN promise.value ELSE Null])
  /\ UNCHANGED <<config, sheetsClient, columns, messages, lastInsertRowid, sheet,
                 ownId, delivered>>
  /\ UNCHANGED <<analyzeVars, batchVars, otherVars>>

\* sendToSheets: spreadsheets.values.get of column A is answered
SheetGet(p) ==
  /\ pc[p] = "sheetGet"
  /\ \E accepted \in BOOLEAN :
       IF accepted
       THEN Continue(p, "sheetUpdate",
                     [frame[p] EXCEPT !.valuesLength = Len(sheet),
                                      !.nextRow = NextRow(Len(sheet))])
       ELSE Catch(p, "sheets")
  /\ UNCHANGED <<config, sheetsClient, columns, messages, lastInsertRowid, sheet,
                 ownId, delivered>>
  /\ UNCHANGED <<analyzeVars, batchVars, otherVars>>

\* sendToSheets: spreadsheets.values.update is answered; then
\* updateMessageStatus issues its UPDATE
SheetUpdate(p) ==
  /\ pc[p] = "sheetUpdate"
  /\ \E accepted \in BOOLEAN :
       IF accepted
       THEN /\ sheet' = WriteRow(sheet, frame[p].nextRow,
                                 prepareSheetData(frame[p].extractedData,
                                                  frame[p].analysis,
                                                  frame[p].messageText, p))
            /\ delivered' = [delivered EXCEPT ![p] = Some(frame[p].nextRow)]
            /\ Continue(p, "updateStatus", frame[p])
       ELSE /\ Catch(p, "sheets")
            /\ UNCHANGED <<sheet, delivered>>
  /\ UNCHANGED <<config, sheetsClient, columns, messages, lastInsertRowid, ownId>>
  /\ UNCHANGED <<analyzeVars, batchVars, otherVars>>

\* updateMessageStatus(messageId, 'completed', ...): the UPDATE is answered;
\* then processLINEMessage returns its result
UpdateStatus(p) ==
  /\ pc[p] = "updateStatus"
  /\ \E accepted \in BOOLEAN :
       IF runQuery(UpdateColumns, accepted)
       THEN /\ messages' =
                 updateMessageStatus(messages, frame[p].messageId, "completed",
                                     [sheetRow |-> frame[p].nextRow,
                                      extractedData |-> frame[p].extractedData,
                                      analysis |-> frame[p].analysis])
            /\ Return(p, SuccessResult(frame[p].messageId, frame[p].nextRow))
       ELSE /\ Catch(p, queryError(accepted))
            /\ UNCHANGED messages
  /\ UNCHANGED <<config, sheetsClient, columns, lastInsertRowid, sheet, ownId,
                 delivered>>
  /\ UNCHANGED <<analyzeVars, batchVars, otherVars>>

\* a header row the sheet may hold before the first delivery
HeaderRow == [timestamp |-> "header", writer |-> 0]

AnalyzeIdle ==
  /\ aText = <<>>
  /\ aResponse = CallFailed
  /\ aResult = Null

BatchIdle ==
  /\ bMessages = <<>>
  /\ bConcurrency = 1
  /\ bPc = "idle"
  /\ bI = 0
  /\ chunks = <<>>
  /\ bChunk = 0
  /\ inFlight = {}
  /\ settled = <<>>
  /\ results = <<>>
  /\ bResponses = <<>>
  /\ bStarted = {}
  /\ bOrder = <<>>
  /\ bSpin = FALSE

HealthCalls == 1..NumChecks

\* checks before healthCheck fills it
NoChecks == [config |-> FALSE, sheets |-> FALSE, database |-> FALSE]

HealthIdle ==
  /\ hPc = [c \in HealthCalls |-> "idle"]
  /\ checks = [c \in HealthCalls |-> NoChecks]
  /\ hResult = [c \in HealthCalls |-> Null]
  /\ hFetch = [c \in HealthCalls |-> "none"]

SeparatorIdle ==
  /\ sepText = <<>>
  /\ sepResult = Null

\* the statements of createTables
Statements == 1..2

StartupIdle ==
  /\ dbOpen = "open"
  /\ created = [k \in Statements |-> "none"]
  /\ initPromise = "none"
  /\ serverPc = "idle"
  /\ served = {}

\* the environment that initializeConfig made the configuration c from, with
\* a usable service account key if there is a sheets client
EnvOf(c, client) ==
  [ENABLE_AI |-> IF c.enableAI THEN "true" ELSE "",
   TARGET_SHEET_ID |-> c.targetSheetId,
   GOOGLE_SERVICE_ACCOUNT_KEY |-> IF client THEN "key" ELSE ""]

ConfigIdle ==
  /\ env = EnvOf(config, sheetsClient)
  /\ uPc = "idle"
  /\ newConfig = EmptyObject

OthersIdle == HealthIdle /\ SeparatorIdle /\ StartupIdle /\ ConfigIdle

\* CREATE TABLE IF NOT EXISTS leaves an existing table as it is: the table
\* messages has the columns of createTables, or it was there before with
\* also the columns the UPDATE of updateMessageStatus names.
CoreInit ==
  /\ config \in [enableAI : BOOLEAN, targetSheetId : {"sheet"}]
  /\ sheetsClient \in BOOLEAN
  /\ columns \in {CreateTablesColumns,
                  CreateTablesColumns \cup {"extracted_data", "sheets_row_number"}}
  /\ messages = <<>>
  /\ lastInsertRowid = 0
  /\ sheet \in {[i \in 1..n |-> Some(HeaderRow)] : n \in 0..MaxInitRows}
  /\ pc = [p \in Procs |-> "idle"]
  /\ frame = [p \in Procs |-> NoFrame]
  /\ result = [p \in Procs |-> Null]
  /\ ownId = [p \in Procs |-> 0]
  /\ delivered = [p \in Procs |-> Null]

Init == CoreInit /\ AnalyzeIdle /\ BatchIdle /\ OthersIdle

Next ==
  \E p \in Procs :
    \/ Start(p)
    \/ Insert(p)
    \/ SelectId(p)
    \/ Enrich(p)
    \/ SheetGet(p)
    \/ SheetUpdate(p)
    \/ UpdateStatus(p)

Spec == Init /\ [][Next]_vars

\* ---------------------------------- processLINEMessage, one call at a time
\* processLINEMessage is called while no other call of it is in progress
StartAlone(p) ==
  /\ \A q \in Procs : pc[q] \in {"idle", "returned"}
  /\ Start(p)

NextSequential ==
  \E p \in Procs :
    \/ StartAlone(p)
    \/ Insert(p)
    \/ SelectId(p)
    \/ Enrich(p)
    \/ SheetGet(p)
    \/ SheetUpdate(p)
    \/ UpdateStatus(p)

SpecSequential == Init /\ [][NextSequential]_vars

\* ------------------------------------------- analyzeMessage, one call
CoreIdle ==
  /\ config = [enableAI |-> FALSE, targetSheetId |-> ""]
  /\ sheetsClient = FALSE
  /\ columns = CreateTablesColumns
  /\ messages = <<>>
  /\ lastInsertRowid = 0
  /\ sheet = <<>>
  /\ pc = [p \in Procs |-> "idle"]
  /\ frame = [p \in Procs |-> NoFrame]
  /\ result = [p \in Procs |-> Null]
  /\ ownId = [p \in Procs |-> 0]
  /\ delivered = [p \in Procs |-> Null]

\* the message texts: up to, at and over the 50 characters of the summary
AnalyzeTextLengths == {3, 50, 51}
AnalyzeTexts == {[i \in 1..n |-> "x"] : n \in AnalyzeTextLengths}

\* the JSON objects the remote model may answer with
AnalyzeObjects ==
  {[NoObject EXCEPT !.sentiment = se, !.keywords = kw, !.confidence_score = sc,
                    !.category = Some("inquiry")] :
     se \in {Null, Some(""), Some("positive")},
     kw \in {Null, Some(<<"kw">>)},
     sc \in ScoreInputs}

AnalyzeResponses ==
  {CallFailed}
  \cup {Answered([prefix |-> pre, body |-> "object", obj |-> o]) :
          pre \in Prefixes, o \in AnalyzeObjects}
  \cup {Answered([prefix |-> pre, body |-> b, obj |-> NoObject]) :
          pre \in Prefixes, b \in Bodies \ {"object"}}

AnalyzeInit ==
  /\ aText \in AnalyzeTexts
  /\ aResponse \in AnalyzeResponses
  /\ aResult = Null

\* the call of analyzeMessage(aText) settles
AnalyzeMessage ==
  /\ aResult = Null
  /\ aResult' = Some(analyzeMessage(aText, aResponse))
  /\ UNCHANGED <<aText, aResponse>>
  /\ UNCHANGED <<coreVars, batchVars, otherVars>>

InitAnalyze == CoreIdle /\ AnalyzeInit /\ BatchIdle /\ OthersIdle

NextAnalyze == AnalyzeMessage

SpecAnalyze == InitAnalyze /\ [][NextAnalyze]_vars

\* --------------------------------------------- batchAnalyze, one call
\* Array.prototype.slice(start, end) on an array of length len: the positions
\* (from 1) it copies, in order
slicePositions(len, start, end) ==
  LET from == IF start < 0 THEN (IF len + start < 0 THEN 0 ELSE len + start)
              ELSE (IF start > len THEN len ELSE start)
      to == IF end < 0 THEN (IF len + end < 0 THEN 0 ELSE len + end)
            ELSE (IF end > len THEN len ELSE end)
  IN [k \in 1..(IF to > from THEN to - from ELSE 0) |-> from + k]

\* a chunk one item short
chunkShort(len, i, concurrency) == slicePositions(len, i, i + concurrency - 1)

\* a chunk one item long
chunkLong(len, i, concurrency) == slicePositions(len, i, i + concurrency + 1)

\* messages.slice(i, i + concurrency)
chunkAt(len, i, concurrency) == slicePositions(len, i, i + concurrency)

\* what one promise of chunk.map resolves to
BatchEntry(message, promise) ==
  IF promise.state = "fulfilled"
  THEN [messageId |-> message.id, analysis |-> promise.value, error |-> Null]
  ELSE [messageId |-> message.id, analysis |-> Null, error |-> Some("error")]

BatchTexts == {<<"h", "i">>, [i \in 1..51 |-> "y"]}
BatchResponses ==
  {CallFailed,
   Answered([prefix |-> "none", body |-> "object", obj |-> AnObject]),
   Answered([prefix |-> "none", body |-> "malformed", obj |-> NoObject])}

\* the id of the message at position i
BatchId(i) == 10 + i

BatchInit ==
  /\ \E n \in 0..MaxBatch :
       \E content \in [1..n -> BatchTexts] :
         bMessages = [i \in 1..n |-> [id |-> BatchId(i), content |-> content[i]]]
  /\ bConcurrency \in (-1)..MaxConc
  /\ bPc = "chunking"
  /\ bI = 0
  /\ chunks = <<>>
  /\ bChunk = 0
  /\ inFlight = {}
  /\ settled = <<>>
  /\ results = <<>>
  /\ bResponses = <<>>
  /\ bStarted = {}
  /\ bOrder = <<>>
  /\ bSpin = FALSE

\* one turn of the chunking loop. A loop that ends builds at most one chunk
\* per message, fewer than MaxChunks; a loop that has built MaxChunks chunks
\* never ends, and of its further turns the model keeps only that they are
\* taken (bSpin), not the chunks they push.
ChunkStep ==
  /\ bPc = "chunking"
  /\ bI < Len(bMessages)
  /\ IF Len(chunks) < MaxChunks
     THEN /\ chunks' = Append(chunks, chunkAt(Len(bMessages), bI, bConcurrency))
          /\ bI' = bI + bConcurrency
          /\ UNCHANGED bSpin
     ELSE /\ bSpin' = ~bSpin
          /\ UNCHANGED <<chunks, bI>>
  /\ UNCHANGED <<bMessages, bConcurrency, bPc, bChunk, inFlight, settled, results,
                 bResponses, bStarted>>
  /\ UNCHANGED bOrder
  /\ UNCHANGED <<coreVars, analyzeVars, otherVars>>

\* the chunking loop ends; the for-of loop starts, or there is no chunk and
\* batchAnalyze returns
ChunkDone ==
  /\ bPc = "chunking"
  /\ bI >= Len(bMessages)
  /\ IF chunks = <<>>
     THEN bPc' = "returned" /\ UNCHANGED bChunk
     ELSE bPc' = "map" /\ bChunk' = 1
  /\ UNCHANGED <<bMessages, bConcurrency, bI, chunks, inFlight, settled, results,
                 bResponses, bStarted>>
  /\ UNCHANGED <<bOrder, bSpin>>
  /\ UNCHANGED <<coreVars, analyzeVars, otherVars>>

\* the positions of the chunk of the for-of loop
ChunkPositions == {chunks[bChunk][k] : k \in DOMAIN chunks[bChunk]}

\* chunk.map(async ...): analyzeMessage is called for every message of the
\* chunk, each up to its remote call; then Promise.all is awaited
StartChunk ==
  /\ bPc = "map"
  /\ inFlight' = inFlight \cup ChunkPositions
  /\ bStarted' = bStarted \cup ChunkPositions
  /\ settled' = [i \in ChunkPositions |-> Null]
  /\ bPc' = "await"
  /\ UNCHANGED <<bMessages, bConcurrency, bI, chunks, bChunk, results, bResponses>>
  /\ UNCHANGED <<bOrder, bSpin>>
  /\ UNCHANGED <<coreVars, analyzeVars, otherVars>>

\* the remote call of one message in flight is answered: its analyzeMessage
\* settles, and so does its promise of the chunk
Settle(i) ==
  /\ i \in inFlight
  /\ \E response \in BatchResponses :
       /\ settled' = [settled EXCEPT
                        ![i] = Some(BatchEntry(bMessages[i],
                                 analyzeMessage(bMessages[i].content, response)))]
       /\ bResponses' = [k \in DOMAIN bResponses \cup {i} |->
                           IF k = i THEN response ELSE bResponses[k]]
  /\ inFlight' = inFlight \ {i}
  /\ bOrder' = Append(bOrder, i)
  /\ UNCHANGED bSpin
  /\ UNCHANGED <<bMessages, bConcurrency, bPc, bI, chunks, bChunk, results, bStarted>>
  /\ UNCHANGED <<coreVars, analyzeVars, otherVars>>

\* a Promise.all that lists the values last promise first
PromiseAllReversed(chunk, values) ==
  [k \in DOMAIN chunk |-> values[chunk[Len(chunk) + 1 - k]][1]]

\* the value Promise.all(promises) resolves to: the values of the promises,
\* in the order of the promises
PromiseAll(chunk, values) == [k \in DOMAIN chunk |-> values[chunk[k]][1]]

\* Promise.all resolves: every promise of the chunk has
AllSettled == \A i \in DOMAIN settled : settled[i] # Null

\* await Promise.all(promises) resumes: results.push(...chunkResults); then
\* the pause before the next chunk, or the return after the last
JoinChunk ==
  /\ bPc = "await"
  /\ AllSettled
  /\ results' = results \o PromiseAll(chunks[bChunk], settled)
  /\ bPc' = IF bChunk - 1 < Len(chunks) - 1 THEN "pause" ELSE "returned"
  /\ UNCHANGED <<bMessages, bConcurrency, bI, chunks, bChunk, inFlight, settled,
                 bResponses, bStarted>>
  /\ UNCHANGED <<bOrder, bSpin>>
  /\ UNCHANGED <<coreVars, analyzeVars, otherVars>>

\* the timer of the pause fires: the for-of loop takes the next chunk
Resume ==
  /\ bPc = "pause"
  /\ bChunk' = bChunk + 1
  /\ bPc' = "map"
  /\ UNCHANGED <<bMessages, bConcurrency, bI, chunks, inFlight, settled, results,
                 bResponses, bStarted>>
  /\ UNCHANGED <<bOrder, bSpin>>
  /\ UNCHANGED <<coreVars, analyzeVars, otherVars>>

BatchNext ==
  \/ ChunkStep
  \/ ChunkDone
  \/ StartChunk
  \/ \E i \in 1..MaxBatch : Settle(i)
  \/ JoinChunk
  \/ Resume

InitBatch == CoreIdle /\ AnalyzeIdle /\ BatchInit /\ OthersIdle

SpecBatch == InitBatch /\ [][BatchNext]_vars

\* the event loop keeps running: the chunking loop takes its next turn, every
\* remote call is answered, and every continuation and timer is run
FairSpecBatch == SpecBatch /\ WF_vars(BatchNext)

\* ---------------------------------------------- detectSeparator, one call
\* the characters of the texts: the three separators, a letter and a line break
SeparatorAlphabet == {FWColon, HalfColon, EqualsSign, "a", LF}
SeparatorTexts ==
  UNION {[1..n -> SeparatorAlphabet] : n \in 0..MaxSepLen}

SeparatorInit ==
  /\ sepText \in SeparatorTexts
  /\ sepResult = Null

\* the call detectSeparator(sepText) returns
DetectSeparator ==
  /\ sepResult = Null
  /\ sepResult' = Some(detectSeparator(sepText))
  /\ UNCHANGED sepText
  /\ UNCHANGED <<coreVars, analyzeVars, batchVars, healthVars, startupVars, configVars>>

InitSeparator ==
  /\ CoreIdle /\ AnalyzeIdle /\ BatchIdle /\ HealthIdle /\ SeparatorInit
  /\ StartupIdle /\ ConfigIdle

NextSeparator == DetectSeparator

SpecSeparator == InitSeparator /\ [][NextSeparator]_vars

\* ------------------------------------------------ healthCheck, by call
\* Object.values(checks).every(Boolean)
allHealthy(ch) == ch.config /\ ch.sheets /\ ch.database

\* healthCheck returns
HealthReturn(c, ch) ==
  /\ hPc' = [hPc EXCEPT ![c] = "returned"]
  /\ hResult' = [hResult EXCEPT
                   ![c] = Some([status |-> IF allHealthy(ch) THEN "healthy"
                                           ELSE "unhealthy",
                                details |-> ch])]

\* healthCheck is called: checks is built and SELECT 1 is issued
HealthStart(c) ==
  /\ hPc[c] = "idle"
  /\ checks' = [checks EXCEPT ![c] = [config |-> config # Null,
                                      sheets |-> sheetsClient,
                                      database |-> FALSE]]
  /\ hPc' = [hPc EXCEPT ![c] = "database"]
  /\ UNCHANGED <<hResult, hFetch>>
  /\ UNCHANGED <<coreVars, analyzeVars, batchVars, separatorVars, startupVars, configVars>>

\* SELECT 1 is answered; then spreadsheets.get is issued if there is a client
\* and a target sheet id, and otherwise healthCheck returns
HealthDatabase(c) ==
  /\ hPc[c] = "database"
  /\ \E accepted \in BOOLEAN :
       LET ch == [checks[c] EXCEPT !.database = runQuery({}, accepted)]
       IN /\ checks' = [checks EXCEPT ![c] = ch]
          /\ IF sheetsClient /\ config # Null /\ config.targetSheetId # ""
             THEN /\ hPc' = [hPc EXCEPT ![c] = "sheets"]
                  /\ UNCHANGED hResult
             ELSE HealthReturn(c, ch)
  /\ UNCHANGED hFetch
  /\ UNCHANGED <<coreVars, analyzeVars, batchVars, separatorVars, startupVars, configVars>>

\* spreadsheets.get is answered; healthCheck returns
HealthSheets(c) ==
  /\ hPc[c] = "sheets"
  /\ \E accepted \in BOOLEAN :
       LET ch == IF accepted THEN checks[c] ELSE [checks[c] EXCEPT !.sheets = FALSE]
       IN /\ checks' = [checks EXCEPT ![c] = ch]
          /\ hFetch' = [hFetch EXCEPT ![c] = IF accepted THEN "ok" ELSE "failed"]
          /\ HealthReturn(c, ch)
  /\ UNCHANGED <<coreVars, analyzeVars, batchVars, separatorVars, startupVars, configVars>>

\* the processor after its constructor: TARGET_SHEET_ID set or not, the
\* service account key usable or not
HealthInit ==
  /\ config \in [enableAI : {FALSE}, targetSheetId : {"", "sheet"}]
  /\ sheetsClient \in BOOLEAN
  /\ columns = CreateTablesColumns
  /\ messages = <<>>
  /\ lastInsertRowid = 0
  /\ sheet = <<>>
  /\ pc = [p \in Procs |-> "idle"]
  /\ frame = [p \in Procs |-> NoFrame]
  /\ result = [p \in Procs |-> Null]
  /\ ownId = [p \in Procs |-> 0]
  /\ delivered = [p \in Procs |-> Null]

InitHealth ==
  /\ HealthInit /\ AnalyzeIdle /\ BatchIdle /\ HealthIdle /\ SeparatorIdle
  /\ StartupIdle /\ ConfigIdle

NextHealth ==
  \E c \in HealthCalls :
    \/ HealthStart(c)
    \/ HealthDatabase(c)
    \/ HealthSheets(c)

SpecHealth == InitHealth /\ [][NextHealth]_vars

\* ------------------------------------------------- the start of the server
\* the routes of app.ts
Routes == {"/", "/health", "/api/line/webhook"}

\* every table of createTables is there
TablesCreated == \A k \in Statements : created[k] = "done"

\* the modules are loaded: new sqlite3.Database has started to open data/app.db
StartupInit ==
  /\ dbOpen = "opening"
  /\ created = [k \in Statements |-> "none"]
  /\ initPromise = "none"
  /\ serverPc = "idle"
  /\ served = {}

\* startServer() up to its await: initializeDatabase queues the statements of
\* createTables with db.run inside db.serialize and then calls resolve()
StartServer ==
  /\ serverPc = "idle"
  /\ created' = [k \in Statements |-> "queued"]
  /\ initPromise' = "resolved"
  /\ serverPc' = "awaitInit"
  /\ UNCHANGED <<dbOpen, served>>
  /\ UNCHANGED <<coreVars, analyzeVars, batchVars, healthVars, separatorVars, configVars>>

\* await initializeDatabase() resumes: app.listen(PORT), or the catch block
\* and process.exit(1) when the promise rejected
Listen ==
  /\ serverPc = "awaitInit"
  /\ initPromise \in {"resolved", "rejected"}
  /\ serverPc' = IF initPromise = "resolved" THEN "listening" ELSE "exited"
  /\ UNCHANGED <<dbOpen, created, initPromise, served>>
  /\ UNCHANGED <<coreVars, analyzeVars, batchVars, healthVars, separatorVars, configVars>>

\* the callback of new sqlite3.Database: the file is open, or it is not. The
\* event loop runs it after the continuation of the settled await.
OpenDatabase ==
  /\ dbOpen = "opening"
  /\ serverPc \notin {"idle", "awaitInit"}
  /\ dbOpen' \in {"open", "error"}
  /\ UNCHANGED <<created, initPromise, serverPc, served>>
  /\ UNCHANGED <<coreVars, analyzeVars, batchVars, healthVars, separatorVars, configVars>>

\* statement k of createTables has run and the callback of its db.run is
\* called: the statements run one after the other once the connection has
\* settled; reject(err) settles the promise only if it is still pending
RunStatement(k) ==
  /\ created[k] = "queued"
  /\ dbOpen # "opening"
  /\ serverPc \notin {"idle", "awaitInit"}
  /\ \A j \in 1..(k - 1) : created[j] \in {"done", "error"}
  /\ \E ok \in BOOLEAN :
       LET err == dbOpen = "error" \/ ~ok
       IN /\ created' = [created EXCEPT ![k] = IF err THEN "error" ELSE "done"]
          /\ initPromise' = IF err /\ initPromise = "pending"
                            THEN "rejected" ELSE initPromise
  /\ UNCHANGED <<dbOpen, serverPc, served>>
  /\ UNCHANGED <<coreVars, analyzeVars, batchVars, healthVars, separatorVars, configVars>>

\* the listening server answers a request on one of its routes
Serve(route) ==
  /\ serverPc = "listening"
  /\ served' = served \cup {[route |-> route, tables |-> TablesCreated]}
  /\ UNCHANGED <<dbOpen, created, initPromise, serverPc>>
  /\ UNCHANGED <<coreVars, analyzeVars, batchVars, healthVars, separatorVars, configVars>>

InitStartup ==
  /\ CoreIdle /\ AnalyzeIdle /\ BatchIdle /\ HealthIdle /\ SeparatorIdle
  /\ StartupInit /\ ConfigIdle

NextStartup ==
  \/ StartServer
  \/ Listen
  \/ OpenDatabase
  \/ \E k \in Statements : RunStatement(k)
  \/ \E route \in Routes : Serve(route)

SpecStartup == InitStartup /\ [][NextStartup]_vars

\* --------------------------------------------------- updateConfig, one call
\* initializeConfig: this.config is built anew from process.env, whatever it
\* held (current); this.sheetsClient is replaced when the service account key
\* is set and parses, and is left as it was (client) otherwise
initializeConfig(current, client, e) ==
  [config |-> [enableAI |-> e.ENABLE_AI = "true",
               targetSheetId |-> e.TARGET_SHEET_ID],
   sheetsClient |-> IF e.GOOGLE_SERVICE_ACCOUNT_KEY = "key" THEN TRUE ELSE client]

\* the fields of SimpleConfig the model keeps
ConfigKeys == {"enableAI", "targetSheetId"}

\* the processor after its constructor, for every environment: ENABLE_AI set
\* to 'true' or not, the service account key missing, usable or unparsable
ConfigInit ==
  /\ env \in [ENABLE_AI : {"", "true"}, TARGET_SHEET_ID : {"sheet"},
              GOOGLE_SERVICE_ACCOUNT_KEY : {"", "key", "bad"}]
  /\ config = initializeConfig(Null, FALSE, env).config
  /\ sheetsClient = initializeConfig(Null, FALSE, env).sheetsClient
  /\ columns \in {CreateTablesColumns,
                  CreateTablesColumns \cup {"extracted_data", "sheets_row_number"}}
  /\ messages = <<>>
  /\ lastInsertRowid = 0
  /\ sheet \in {[i \in 1..n |-> Some(HeaderRow)] : n \in 0..MaxInitRows}
  /\ pc = [p \in Procs |-> "idle"]
  /\ frame = [p \in Procs |-> NoFrame]
  /\ result = [p \in Procs |-> Null]
  /\ ownId = [p \in Procs |-> 0]
  /\ delivered = [p \in Procs |-> Null]
  /\ uPc = "idle"
  /\ newConfig = EmptyObject

\* updateConfig(newConfig) up to its await: Object.assign(this.config,
\* newConfig), then initializeConfig() runs to its end
UpdateConfig ==
  /\ uPc = "idle"
  /\ config # Null
  /\ \E named \in SUBSET ConfigKeys, enable \in BOOLEAN :
       LET nc == [k \in named |-> IF k = "enableAI" THEN enable ELSE "other"]
           assigned == ObjectAssign(config, nc)
           initialized == initializeConfig(assigned, sheetsClient, env)
       IN /\ newConfig' = nc
          /\ config' = initialized.config
          /\ sheetsClient' = initialized.sheetsClient
  /\ uPc' = "awaiting"
  /\ UNCHANGED <<columns, messages, lastInsertRowid, sheet, pc, frame, result,
                 ownId, delivered, env>>
  /\ UNCHANGED <<analyzeVars, batchVars, healthVars, separatorVars, startupVars>>

\* await this.initializeConfig() resumes: updateConfig completes
UpdateConfigDone ==
  /\ uPc = "awaiting"
  /\ uPc' = "done"
  /\ UNCHANGED <<coreVars, env, newConfig>>
  /\ UNCHANGED <<analyzeVars, batchVars, healthVars, separatorVars, startupVars>>

InitConfig ==
  /\ ConfigInit /\ AnalyzeIdle /\ BatchIdle /\ HealthIdle /\ SeparatorIdle
  /\ StartupIdle

NextConfig ==
  \/ UpdateConfig
  \/ UpdateConfigDone
  \/ \E p \in Procs :
       \/ StartAlone(p)
       \/ Insert(p)
       \/ SelectId(p)
       \/ Enrich(p)
       \/ SheetGet(p)
       \/ SheetUpdate(p)
       \/ UpdateStatus(p)

SpecConfig == InitConfig /\ [][NextConfig]_vars

\* ------------------------------------------------------------------ claims
Terminal == {"processed", "completed", "failed"}

\* pending -> processing -> processed / completed / failed
StatusRank(status) ==
  CASE status = "pending" -> 0
    [] status = "processing" -> 1
    [] OTHER -> 2

\* C1: a completed record has a persisted extraction result and a recorded
\* sheet row number, and a failed record has no row number.
C1_CompletedHasDataAndRow ==
  \A id \in DOMAIN messages :
    /\ messages[id].status = "completed" =>
         messages[id].extracted_data # Null /\ messages[id].sheets_row_number # Null
    /\ messages[id].status = "failed" => messages[id].sheets_row_number = Null

C1_Witness ==
  \E id \in DOMAIN messages :
    /\ messages[id].status = "completed"
    /\ messages[id].sheets_row_number # Null

\* C2 (as claimed): when an invocation that inserted its record returns a
\* failure, that record has status failed.
C2_FailedAfterInsertIsMarked ==
  \A p \in Procs :
    (pc[p] = "returned" /\ ~result[p][1].success /\ ownId[p] # 0) =>
      messages[ownId[p]].status = "failed"

\* C3: processLINEMessage never rejects; it returns a result, a successful
\* one only when its insert and its delivery succeeded, and a failed one with
\* success = false, an error and the elapsed processingTime.
C3_AlwaysReturnsResult ==
  \A p \in Procs :
    /\ pc[p] # "threw"
    /\ pc[p] = "returned" =>
         /\ result[p] # Null
         /\ result[p][1].processingTime # Null
         /\ result[p][1].success =>
              ownId[p] # 0 /\ delivered[p] # Null /\ result[p][1].error = Null
         /\ ~result[p][1].success => result[p][1].error # Null
    /\ (pc[p] \notin {"returned", "threw"}) => result[p] = Null

C3_Witness ==
  \E p, q \in Procs :
    /\ pc[p] = "returned" /\ result[p][1].success
    /\ pc[q] = "returned" /\ ~result[q][1].success
    /\ result[q][1].error = Some("sheets")

\* C4 (as claimed): for every row count n >= 0 read from column A,
\* sendToSheets writes and returns row n + 1.
C4_RowIsCountPlusOne ==
  \A p \in Procs :
    pc[p] = "updateStatus" =>
      /\ frame[p].nextRow = frame[p].valuesLength + 1
      /\ delivered[p] = Some(frame[p].valuesLength + 1)

\* C4 (amended): for every row count n >= 1 sendToSheets writes and returns
\* row n + 1, and for the empty column (n = 0) it writes and returns row 2.
C4_RowIsCountPlusOneOrTwo ==
  \A p \in Procs :
    pc[p] = "updateStatus" =>
      LET n == frame[p].valuesLength
          row == IF n >= 1 THEN n + 1 ELSE 2
      IN frame[p].nextRow = row /\ delivered[p] = Some(row)

C4_Witness ==
  /\ \E p \in Procs : pc[p] = "updateStatus" /\ frame[p].valuesLength = 0
  /\ \E p \in Procs : pc[p] = "updateStatus" /\ frame[p].valuesLength >= 2

\* C5 (as claimed): any two messages whose delivery succeeded have different
\* row numbers, also when their pipelines interleave.
C5_RowsNeverReused ==
  \A p, q \in Procs :
    (p # q /\ delivered[p] # Null /\ delivered[q] # Null) =>
      delivered[p] # delivered[q]

\* C5 (amended): a row number is not reused by a delivery that does not
\* interleave with the earlier one: a row-count read made after another
\* message's row was written yields a higher row number, and a row write
\* changes no row but its own.
C5_RowsNotReusedInSequence ==
  [][\A q \in Procs :
       /\ (pc[q] = "sheetGet" /\ pc'[q] = "sheetUpdate") =>
            \A p \in Procs \ {q} :
              delivered[p] # Null => frame'[q].nextRow > delivered[p][1]
       /\ (pc[q] = "sheetUpdate" /\ pc'[q] = "updateStatus") =>
            /\ Len(sheet') >= Len(sheet)
            /\ sheet'[frame[q].nextRow][1].writer = q
            /\ \A i \in 1..Len(sheet) : i # frame[q].nextRow => sheet'[i] = sheet[i]]_vars

C5_Witness ==
  \E p, q \in Procs :
    /\ pc[p] = "returned" /\ pc[q] = "returned"
    /\ delivered[p] # Null /\ delivered[q] # Null
    /\ delivered[q][1] > delivered[p][1]
    /\ sheet[delivered[p][1]][1].writer = p
    /\ sheet[delivered[q][1]][1].writer = q

\* the remote call answered with a text that cannot be parsed as JSON
Malformed(response) ==
  response.kind = "text" /\ CleanedBody(response.text) = "malformed"

C7_OneEntryPerMessage ==
  (bPc = "returned" /\ bConcurrency >= 1) =>
    /\ Len(results) = Len(bMessages)
    /\ \A i \in DOMAIN bMessages :
         \E j \in DOMAIN results :
           /\ results[j].messageId = bMessages[i].id
           /\ \/ /\ results[j].error = Null
                 /\ results[j].analysis =
                      analyzeMessage(bMessages[i].content, bResponses[i]).value
              \/ /\ results[j].error # Null
                 /\ results[j].analysis = Null
                 /\ analyzeMessage(bMessages[i].content, bResponses[i]).state
                      = "rejected"

C7_Witness ==
  /\ bPc = "returned"
  /\ bConcurrency = 2
  /\ Len(bMessages) = 3
  /\ Len(results) = 3
  /\ bResponses[2] = CallFailed
  /\ bResponses[3].kind = "text"
  /\ bMessages[2].content # bMessages[3].content

\* C8: with a concurrency limit C >= 1, at most C analyses are in flight, and
\* no analysis of chunk k+1 has started unless every analysis of chunk k has
\* finished.
C8_BoundedAndChunkSynchronous ==
  bConcurrency >= 1 =>
    /\ Cardinality(inFlight) <= bConcurrency
    /\ \A k \in 1..(Len(chunks) - 1) :
         \A a \in DOMAIN chunks[k], b \in DOMAIN chunks[k + 1] :
           chunks[k + 1][b] \in bStarted =>
             chunks[k][a] \in bStarted \ inFlight

C8_Witness ==
  /\ bConcurrency = 2
  /\ bChunk = 2
  /\ bPc = "await"
  /\ inFlight # {}
  /\ Len(results) = 2

\* C9: the status of a record never moves backward along
\* pending -> processing -> processed / completed / failed, and never leaves
\* a terminal status.
C9_StatusMonotonic ==
  [][\A id \in DOMAIN messages :
       /\ id \in DOMAIN messages'
       /\ StatusRank(messages'[id].status) >= StatusRank(messages[id].status)
       /\ messages[id].status \in Terminal =>
            messages'[id].status = messages[id].status]_vars

C9_Witness ==
  \E id, other \in DOMAIN messages :
    /\ messages[id].status = "completed"
    /\ messages[id].processedAtWrites = 2
    /\ messages[other].status = "processing"

\* C10 (as claimed): processed_at is written exactly once, when the record
\* reaches a terminal status: not before, and not a second time.
C10_ProcessedAtOnce ==
  \A id \in DOMAIN messages :
    /\ messages[id].status \in Terminal <=> messages[id].processed_at # Null
    /\ messages[id].status \in Terminal => messages[id].processedAtWrites = 1
    /\ messages[id].status \notin Terminal => messages[id].processedAtWrites = 0

\* C11 (as claimed): a healthCheck that returns healthy found the
\* configuration present and had its SELECT 1 and its sheet metadata fetch
\* succeed; it is never healthy when the fetch was not made or failed.
C11_HealthyOnlyIfAllProbed ==
  \A c \in HealthCalls :
    (hResult[c] # Null /\ hResult[c][1].status = "healthy") =>
      /\ config # Null
      /\ hResult[c][1].details.database
      /\ hFetch[c] = "ok"

\* the store or the sheet service refused a request of the call that returned res
Refused(res) == res.error \in {Some("db"), Some("sheets")}

\* C12 (as claimed): with enrichment disabled and the store and the sheet
\* service accepting every request, a call makes no enrichment call and ends
\* with its record completed with analysis null and with a delivered row that
\* holds the raw text and empty name, email, phone and company.
C12_DisabledAICompletes ==
  \A p \in Procs :
    (~config.enableAI /\ sheetsClient) =>
      /\ pc[p] # "ai"
      /\ (pc[p] = "returned" /\ ~Refused(result[p][1])) =>
           /\ result[p][1].success
           /\ messages[ownId[p]].status = "completed"
           /\ messages[ownId[p]].ai_analysis = Null
           /\ delivered[p] # Null
           /\ LET row == sheet[delivered[p][1]][1]
              IN /\ row.originalText = messages[ownId[p]].content
                 /\ row.name = <<>> /\ row.email = <<>>
                 /\ row.phone = <<>> /\ row.company = <<>>
                 /\ row.sentiment = ""

\* C13: the same text and sender submitted twice, one call after the other,
\* both succeeding, gives two records with distinct ids and two distinct
\* sheet rows, and the second row leaves the first row as it was written.
C13_NoDeduplication ==
  \A p, q \in Procs :
    (/\ p # q
     /\ pc[p] = "returned" /\ result[p][1].success
     /\ pc[q] = "returned" /\ result[q][1].success) =>
      /\ result[p][1].messageId # result[q][1].messageId
      /\ ownId[p] # ownId[q]
      /\ messages[ownId[p]].content = messages[ownId[q]].content
      /\ messages[ownId[p]].sender_id = messages[ownId[q]].sender_id
      /\ delivered[p] # delivered[q]
      /\ \A r \in {p, q} :
           /\ delivered[r][1] \in DOMAIN sheet
           /\ sheet[delivered[r][1]] # Null
           /\ sheet[delivered[r][1]][1].writer = r
           /\ sheet[delivered[r][1]][1].originalText = messages[ownId[r]].content

C13_Witness ==
  \E p, q \in Procs :
    /\ p # q
    /\ pc[p] = "returned" /\ result[p][1].success
    /\ pc[q] = "returned" /\ result[q][1].success
    /\ Len(messages) = 2
    /\ messages[1].content = messages[2].content

\* the place of a stage in the sequence of processLINEMessage
StageRank(at) ==
  CASE at = "idle" -> 0
    [] at = "insert" -> 1
    [] at = "selectId" -> 2
    [] at = "ai" -> 3
    [] at = "sheetGet" -> 4
    [] at = "sheetUpdate" -> 5
    [] at = "updateStatus" -> 6
    [] OTHER -> 7

\* a step of the pipeline that only moves calls forward: no stage is entered
\* twice, a call that returns a failure does so at once and changes neither
\* the store nor the sheet, a returned call stays returned, and a step adds at
\* most one record or writes one row, each only as the answer to the one
\* request of its stage
ForwardStep ==
  /\ \A p \in Procs :
       /\ pc'[p] # pc[p] => StageRank(pc'[p]) > StageRank(pc[p])
       /\ (pc[p] # "idle" /\ pc'[p] = pc[p]) =>
            (frame'[p] = frame[p] /\ result'[p] = result[p])
       /\ (result[p] = Null /\ result'[p] # Null /\ ~result'[p][1].success) =>
            (pc'[p] = "returned" /\ sheet' = sheet /\ messages' = messages)
       /\ pc[p] = "returned" => (pc'[p] = "returned" /\ result'[p] = result[p])
  /\ messages' # messages =>
       \E p \in Procs :
         \/ /\ pc[p] = "insert" /\ pc'[p] = "selectId"
            /\ Len(messages') = Len(messages) + 1
         \/ /\ pc[p] = "updateStatus" /\ pc'[p] = "returned"
            /\ Len(messages') = Len(messages)
  /\ sheet' # sheet =>
       \E p \in Procs : pc[p] = "sheetUpdate" /\ pc'[p] = "updateStatus"

\* the enrichment call of the analysis an failed
EnrichmentFailed(an) == an # Null /\ an[1].model_used = "fallback"

\* C14 (as claimed): every external stage is attempted at most once, and
\* after a stage fails (the enrichment call included) no stage is attempted
\* again and no later stage is started.
C14_FailedStageEndsCall ==
  [][/\ ForwardStep
     /\ \A p \in Procs :
          (pc[p] = "ai" /\ pc'[p] = "sheetGet") =>
            ~EnrichmentFailed(frame'[p].analysis)]_vars

\* C14 (amended): every external stage is attempted at most once; after the
\* record insert, the row-count read, the row write or the status update
\* fails no stage is attempted again and no later stage is started; a failed
\* enrichment call is not attempted again either, and the call goes on to the
\* row-count read with the fallback analysis.
C14_NoRetry ==
  [][/\ ForwardStep
     /\ \A p \in Procs :
          (pc[p] = "ai" /\ pc'[p] # "ai") =>
            (pc'[p] = "sheetGet" /\ frame'[p].analysis # Null)]_vars

C14_Witness ==
  \E p, q \in Procs :
    /\ pc[p] = "updateStatus"
    /\ EnrichmentFailed(frame[p].analysis)
    /\ pc[q] = "returned"
    /\ ~result[q][1].success
    /\ result[q][1].error = Some("sheets")
    /\ ownId[q] # 0
    /\ delivered[q] = Null

\* the remote call answered with a text that JSON.parse accepts and that is
\* not the literal null
Parsed(response) ==
  response.kind = "text" /\ CleanedBody(response.text) \in {"object", "scalar"}

\* C15 (as claimed): for every successfully parsed response the result has
\* every field populated, the missing ones with their defaults, and its
\* confidence_score is a number from 0 to 100 whatever the response carried.
C15_ParsedScoreInRange ==
  (aResult # Null /\ Parsed(aResponse)) =>
    LET r == aResult[1].value[1]
        o == IF CleanedBody(aResponse.text) = "object"
             THEN aResponse.text.obj ELSE NoObject
    IN /\ aResult[1].state = "fulfilled"
       /\ r.sentiment = (IF o.sentiment \in {Null, Some("")}
                         THEN "neutral" ELSE o.sentiment[1])
       /\ r.urgency = "medium"
       /\ r.importance = "medium"
       /\ r.category = (IF o.category = Null THEN "general" ELSE o.category[1])
       /\ r.keywords = (IF o.keywords = Null THEN <<>> ELSE o.keywords[1])
       /\ r.summary = Some(DefaultSummary)
       /\ r.action_required = "none"
       /\ ~r.confidence_score.nan
       /\ r.confidence_score.v \in 0..100

\* C16: the separator chosen is one of the full-width colon, the half-width
\* colon and the equals sign, none of the three occurs more often in the
\* whole text than it does, and it is the full-width colon when none of the
\* three occurs.
C16_SeparatorIsMostUsed ==
  sepResult # Null =>
    /\ sepResult[1] \in {FWColon, HalfColon, EqualsSign}
    /\ \A c \in {FWColon, HalfColon, EqualsSign} :
         Count(sepText, sepResult[1]) >= Count(sepText, c)
    /\ (\A c \in {FWColon, HalfColon, EqualsSign} : Count(sepText, c) = 0) =>
         sepResult[1] = FWColon

C16_Witness ==
  /\ sepResult = Some(EqualsSign)
  /\ Count(sepText, EqualsSign) = 2
  /\ Count(sepText, FWColon) = 1

\* C17: with a concurrency limit C >= 1, the result sequence lists the items
\* in input order whatever order the analyses of a chunk finish in, and the
\* entries of chunk k all precede those of chunk k+1.
C17_ResultsInInputOrder ==
  bConcurrency >= 1 =>
    /\ Len(results) <= Len(bMessages)
    /\ \A j \in DOMAIN results : results[j].messageId = bMessages[j].id
    /\ bPc = "returned" => Len(results) = Len(bMessages)
    /\ \A k \in 1..(Len(chunks) - 1) :
         \A a \in DOMAIN chunks[k], b \in DOMAIN chunks[k + 1] :
           \A j \in DOMAIN results :
             results[j].messageId = bMessages[chunks[k + 1][b]].id =>
               \E h \in 1..(j - 1) :
                 results[h].messageId = bMessages[chunks[k][a]].id

C17_Witness ==
  /\ bPc = "returned"
  /\ bConcurrency = 2
  /\ Len(results) = 3
  /\ bOrder = <<2, 1, 3>>

\* C20 (as claimed): batchAnalyze terminates for every message list and every
\* integer concurrency limit, a limit of 0 and a negative limit included,
\* when every analysis call returns.
C20_BatchTerminates == <>(bPc = "returned")

\* the stages at which a call holds the id saveMessage gave it
HoldsId == {"ai", "sheetGet", "sheetUpdate", "updateStatus"}

\* C19 (as claimed): under every interleaving the id a call obtains from
\* saveMessage is the id of the record it inserted itself, no two calls
\* obtain the same id, and a status update is applied to the call's own
\* record.
C19_ObtainsOwnId ==
  \A p \in Procs :
    /\ pc[p] \in HoldsId =>
         /\ frame[p].messageId = ownId[p]
         /\ \A q \in Procs \ {p} :
              pc[q] \in HoldsId => frame[q].messageId # frame[p].messageId
    /\ (pc[p] = "returned" /\ result[p][1].success) =>
         /\ result[p][1].messageId = ownId[p]
         /\ messages[ownId[p]].status = "completed"

\* C18 (as claimed): the server accepts requests only after every CREATE
\* TABLE statement has completed successfully, and never when a table
\* creation failed.
C18_ListensAfterTables ==
  /\ serverPc = "listening" => TablesCreated
  /\ (\E k \in Statements : created[k] = "error") => serverPc # "listening"
  /\ \A r \in served : r.tables

\* the sheet holds a row written by call p
RowWrittenBy(p) ==
  \E i \in DOMAIN sheet : sheet[i] # Null /\ sheet[i][1].writer = p

\* C21 (as claimed): when a call returns success = false no row of its
\* message has been written to the sheet, and when it returns success = true
\* the stored record is completed with the returned rowNumber.
C21_OutcomeAgreesWithSheet ==
  \A p \in Procs :
    pc[p] = "returned" =>
      /\ ~result[p][1].success => (delivered[p] = Null /\ ~RowWrittenBy(p))
      /\ result[p][1].success =>
           /\ result[p][1].messageId \in DOMAIN messages
           /\ messages[result[p][1].messageId].status = "completed"
           /\ messages[result[p][1].messageId].sheets_row_number
                = result[p][1].rowNumber

\* C22 (as claimed): once updateConfig(newConfig) has completed the
\* configuration holds the value newConfig gives for every field it names,
\* and every use a processLINEMessage call makes of the configuration from
\* then on sees those values: the call enriches exactly if the enableAI of
\* newConfig says so.
C22_UpdateConfigTakesEffect ==
  [][/\ uPc' = "done" =>
          \A k \in DOMAIN newConfig' : config'[k] = newConfig'[k]
     /\ \A p \in Procs :
          (/\ uPc = "done"
           /\ "enableAI" \in DOMAIN newConfig
           /\ pc[p] = "selectId"
           /\ pc'[p] \in {"ai", "sheetGet"}) =>
            (pc'[p] = "ai" <=> newConfig["enableAI"])]_vars

====
